---- MODULE Spec2Model ----
(***************************************************************************)
(* A model of ramalama's Ollama transport (src/ramalama/ollama.py) and of  *)
(* the metadata resolution of its Hugging Face transport                  *)
(* (src/ramalama/transports/huggingface.py).                               *)
(*                                                                         *)
(* The Ollama part is a state machine over the local store (the blobs of   *)
(* repos/ollama/blobs and the snapshot links of models/ollama), the cache  *)
(* of an independently installed ollama tool, and the position of one pull *)
(* that runs at a time.  Whatever the registry and the foreign tool's      *)
(* manifest files answer is an input drawn from a small set.               *)
(***************************************************************************)
EXTENDS Naturals, Sequences, FiniteSets, TLC

VARIABLES
    mode,      \* "direct": self.store is None; "store": the model-store path
    blobs,     \* repos/ollama/blobs: digest -> what is at that path
    snap,      \* models/ollama: model_path -> digest its link names, or "-"
    fblobs,    \* the foreign caches' blobs: <<cache_dir, name>> -> bytes, or "-"
    pc,        \* the position of the running pull
    cur,       \* the local variables of the running pull
    result,    \* what the last pull returned or raised
    ms,        \* the model store (self.store) of the model-store path
    hf,        \* the Hugging Face repository object being resolved
    ident      \* the identifiers of a model reference being parsed

vars == <<mode, blobs, snap, fblobs, pc, cur, result, ms, hf, ident>>

----------------------------------------------------------------------------
(* Bounds of the model *)

\* the longest file listing of a Hugging Face repository
MaxListing == 3

\* the longest layer list of an upstream manifest
MaxLayers == 2
\* how many blobs the foreign caches hold at the start
MaxForeignBlobs == 1

----------------------------------------------------------------------------
(* Values *)

MODEL_TYPE == "application/vnd.ollama.image.model"
TEMPLATE_TYPE == "application/vnd.ollama.image.template"
MISSING == "<missing key>"

\* digests of model weights, as manifests spell them
Digests == {"sha256:a", "sha256:b"}
CfgDigest == "sha256:c"
TplDigest == "sha256:t"
StoreDigests == Digests \cup {CfgDigest}

\* file contents, and the digest each hashes to
Bytes == {"bytes-a", "bytes-b", "bytes-c", "bytes-x"}
Sha256(b) ==
    CASE b = "bytes-a" -> "sha256:a"
      [] b = "bytes-b" -> "sha256:b"
      [] b = "bytes-c" -> "sha256:c"
      [] OTHER -> "sha256:x"
\* the bytes the registry serves for a digest when the transfer is intact
Good(d) == CHOOSE b \in Bytes : Sha256(b) = d
Corrupt == "bytes-x"

\* str(path).replace(':', '-') on a digest
ReplaceColon(d) ==
    CASE d = "sha256:a" -> "sha256-a"
      [] d = "sha256:b" -> "sha256-b"
      [] d = "sha256:c" -> "sha256-c"
      [] d = "sha256:t" -> "sha256-t"
      [] OTHER -> d
\* the digest a blob file name stands for (what verify_checksum compares with)
NameDigest(n) ==
    CASE n = "sha256-a" -> "sha256:a"
      [] n = "sha256-b" -> "sha256:b"
      [] n = "sha256-c" -> "sha256:c"
      [] OTHER -> n

default_ollama_caches == <<"home", "usr_share", "windows">>
CacheDirs == {default_ollama_caches[i] : i \in DOMAIN default_ollama_caches}
\* the foreign tool has pulled, at most, the model whose weights are sha256:a
ForeignDigests == {"sha256:a"}
ForeignPaths == CacheDirs \X {ReplaceColon(d) : d \in ForeignDigests}
NoPath == <<"-", "-">>

SeqsUpTo(S, n) == UNION {[1..k -> S] : k \in 0..n}

\* manifests the registry may serve
UpstreamLayers ==
    {[mediaType |-> MODEL_TYPE, digest |-> d] : d \in Digests}
        \cup {[mediaType |-> TEMPLATE_TYPE, digest |-> TplDigest]}
Manifests ==
    {[config |-> [digest |-> CfgDigest], layers |-> l] :
        l \in SeqsUpTo(UpstreamLayers, MaxLayers)}

\* what a manifest file of the foreign tool may hold
ForeignLayers ==
    {[mediaType |-> MODEL_TYPE, digest |-> d] : d \in Digests \cup {MISSING}}
        \cup {[mediaType |-> TEMPLATE_TYPE, digest |-> "sha256:a"],
              [mediaType |-> MISSING, digest |-> "sha256:a"]}
ForeignLayerLists ==
    SeqsUpTo(ForeignLayers, 1)
        \cup {<<[mediaType |-> TEMPLATE_TYPE, digest |-> "sha256:a"],
                [mediaType |-> MODEL_TYPE, digest |-> "sha256:a"]>>,
              <<[mediaType |-> MODEL_TYPE, digest |-> "sha256:b"],
                [mediaType |-> MODEL_TYPE, digest |-> "sha256:a"]>>}
\* unreadable: os.access fails; badjson: json.load fails; nolayers: valid
\* JSON without a "layers" key
ForeignFiles ==
    {[state |-> "unreadable", layers |-> <<>>],
     [state |-> "badjson", layers |-> <<>>],
     [state |-> "nolayers", layers |-> <<>>]}
        \cup {[state |-> "json", layers |-> l] : l \in ForeignLayerLists}

\* model references: self.model is [ns/]name[:tag]
Refs ==
    {[ns |-> "", name |-> "foo", tag |-> ""],
     [ns |-> "", name |-> "foo", tag |-> "v2"],
     [ns |-> "acme", name |-> "foo", tag |-> ""]}
SnapPaths == {"foo"} \X {"latest", "v2"}

NoBlob == [kind |-> "none", bytes |-> "-", target |-> NoPath]
FileBlob(b) == [kind |-> "file", bytes |-> b, target |-> NoPath]
LinkBlobNotMade(p) == NoBlob
LinkBlob(p) == [kind |-> "link", bytes |-> "-", target |-> p]

NoRef == [ns |-> "-", name |-> "-", tag |-> "-"]

\* names: the model reference an error message spells
NoResult == [kind |-> "none", path |-> NoPath, what |-> "-", names |-> NoRef]
Returned(p) == [kind |-> "ok", path |-> p, what |-> "-", names |-> NoRef]
Raised(k, w) == [kind |-> k, path |-> NoPath, what |-> w, names |-> NoRef]
\* exists() found nothing
ReturnedNone == [kind |-> "None", path |-> NoPath, what |-> "-", names |-> NoRef]

\* marks an exception that left in_existing_cache
ProbeFailure == "raised while probing the foreign cache"

\* op: the operation that runs or ran last; http: the error the registry
\* answered a request of this pull with; model_hash: what get_model_hash
\* gives for the manifest this pull fetched
IdleCur ==
    [op |-> "-", ref |-> NoRef, model_path |-> NoPath, layers |-> <<>>,
     digest |-> "-", dir |-> 0, local_blob |-> NoPath, dl |-> 0, vf |-> 0,
     reqM |-> 0, reqB |-> 0, short |-> FALSE, files |-> <<>>, http |-> "-",
     model_hash |-> "-"]

\* a pull's locals are gone once it has returned or raised; what stays is the
\* reference it was called for and the log of its requests
Finish(c) ==
    [c EXCEPT !.layers = <<>>, !.digest = "-", !.dir = 0, !.local_blob = NoPath,
              !.files = <<>>]

\* the model store of one Ollama object (self.store), for the tag of its
\* reference: the snapshot's model hash, the logical file names it holds, and
\* the foreign blob its model file links to; ret remembers the path the pull
\* that made the snapshot returned
NoSnapshot == [hash |-> "-", cached |-> {}, link |-> NoPath, ret |-> NoPath]
MsInit == [ref |-> NoRef, snapshot |-> NoSnapshot]
\* a HuggingfaceRepository object before fetch_metadata: no attribute is set
HfInit ==
    [pc |-> "-", tried |-> <<>>, manifest |-> "-", safetensors |-> "-",
     files |-> <<>>, shards |-> <<>>, index_file |-> "-",
     payload |-> [fetched |-> FALSE, lines |-> <<>>],
     model_filename |-> "-", model_hash |-> "-",
     mmproj_filename |-> "-", mmproj_hash |-> "-",
     other_files |-> <<>>, additional_safetensor_files |-> <<>>,
     safetensors_index_file |-> "-", result |-> NoResult]

\* no reference is being parsed
NoIdent ==
    [transport |-> "-", organization |-> "-", name |-> "-", given |-> "-",
     tag |-> "-", calls |-> 0]

----------------------------------------------------------------------------
(* The file system, as the code reads it *)

\* the bytes reached through the store's blob path of digest d ("-": nothing)
Content(bl, fb, d) ==
    CASE bl[d].kind = "file" -> bl[d].bytes
      [] bl[d].kind = "link" -> fb[bl[d].target]
      [] OTHER -> "-"

\* os.path.exists(model_path): the link and the blob it resolves to exist
PathExists(sn, bl, fb, p) ==
    /\ sn[p] # "-"
    /\ Content(bl, fb, sn[p]) # "-"

\* Ollama._local: model_path drops the namespace; the tag defaults to latest
Local(ref) ==
    LET model_name == <<IF ref.ns = "" THEN "library" ELSE ref.ns, ref.name>>
        model_tag == IF ref.tag = "" THEN "latest" ELSE ref.tag
        model_base == model_name[2]
    IN  [model_path |-> <<model_base, model_tag>>,
         model_name |-> model_name,
         model_tag |-> model_tag]

\* download_file(url, path): the bytes are written to the path itself, so
\* through a link that is already there
download_file(bl, fb, d, b) ==
    IF bl[d].kind = "link"
    THEN [blobs |-> bl, fblobs |-> [fb EXCEPT ![bl[d].target] = b]]
    ELSE [blobs |-> [bl EXCEPT ![d] = FileBlob(b)], fblobs |-> fb]

\* verify_checksum(path): the file's hash is the one its name spells
verify_checksum(bl, fb, d) ==
    /\ Content(bl, fb, d) # "-"
    /\ Sha256(Content(bl, fb, d)) = NameDigest(ReplaceColon(d))

----------------------------------------------------------------------------
(* in_existing_cache: one candidate directory's manifest file *)

RECURSIVE ScanLayers(_, _, _)
ScanLayers(fb, cache_dir, layers) ==
    IF layers = <<>> THEN [kind |-> "none", path |-> NoPath]
    ELSE LET layer == Head(layers) IN
         IF layer.mediaType = MISSING THEN [kind |-> "KeyError", path |-> NoPath]
         ELSE IF layer.mediaType # MODEL_TYPE THEN ScanLayers(fb, cache_dir, Tail(layers))
         ELSE IF layer.digest = MISSING THEN [kind |-> "KeyError", path |-> NoPath]
         ELSE LET p == <<cache_dir, ReplaceColon(layer.digest)>> IN
              IF p \in ForeignPaths /\ fb[p] # "-"
              THEN [kind |-> "found", path |-> p]
              ELSE ScanLayers(fb, cache_dir, Tail(layers))

ScanCandidate(fb, cache_dir, file) ==
    CASE file.state = "unreadable" -> [kind |-> "none", path |-> NoPath]
      [] file.state = "badjson" -> [kind |-> "JSONDecodeError", path |-> NoPath]
      [] file.state = "nolayers" -> [kind |-> "KeyError", path |-> NoPath]
      [] OTHER -> ScanLayers(fb, cache_dir, file.layers)

----------------------------------------------------------------------------
(* OllamaRepository: the layer of a manifest that is the model, the template *)

\* lines 130-135 and 167-172: the digest of the first layer of a media type
RECURSIVE FirstDigest(_, _)
FirstDigest(layers, mediaType) ==
    IF layers = <<>> THEN ""
    ELSE IF Head(layers).mediaType = mediaType THEN Head(layers).digest
    ELSE FirstDigest(Tail(layers), mediaType)

get_model_hash(manifest) == FirstDigest(manifest.layers, MODEL_TYPE)
get_chat_template_hash(manifest) == FirstDigest(manifest.layers, TEMPLATE_TYPE)

----------------------------------------------------------------------------
(* Ollama.pull, the direct path *)

Init ==
    /\ \/ mode = "direct" /\ ms = MsInit
       \/ mode = "store" /\ \E ref \in Refs : ms = [MsInit EXCEPT !.ref = ref]
    /\ blobs = [d \in StoreDigests |-> NoBlob]
    /\ snap = [p \in SnapPaths |-> "-"]
    /\ \E present \in SUBSET ForeignPaths :
          /\ Cardinality(present) <= MaxForeignBlobs
          /\ fblobs = [p \in ForeignPaths |->
                         IF p \in present THEN Good(NameDigest(p[2])) ELSE "-"]
    /\ pc = "idle"
    /\ cur = IdleCur
    /\ result = NoResult
    /\ hf = HfInit
    /\ ident = NoIdent

\* lines 234-235: the check that lets pull return without a request
SnapshotExistsNever(p) == FALSE
SnapshotExists(p) == PathExists(snap, blobs, fblobs, p)

\* lines 228-240: the snapshot check that short-circuits the pull
pull ==
    /\ mode = "direct"
    /\ pc \in {"idle", "done"}
    /\ \E ref \in Refs :
        LET loc == Local(ref) IN
        IF SnapshotExists(loc.model_path)
        THEN /\ pc' = "done"
             /\ cur' = [IdleCur EXCEPT !.op = "pull", !.ref = ref,
                                       !.model_path = loc.model_path,
                                       !.short = TRUE]
             /\ result' = Returned(loc.model_path)
        ELSE /\ pc' = "fetch_manifest_data"
             /\ cur' = [IdleCur EXCEPT !.op = "pull", !.ref = ref,
                                       !.model_path = loc.model_path]
             /\ result' = NoResult
    /\ UNCHANGED <<mode, blobs, snap, fblobs, ms, hf, ident>>

\* how Ollama.pull turns what init_pull raised into its own error
PullErrorGeneric(exc, ref) ==
    IF exc \in {"HTTPError Not Found", "HTTPError"}
    THEN Raised("KeyError", "failed to pull")
    ELSE Raised(exc, "-")
PullError(exc, ref) ==
    CASE exc = "HTTPError Not Found" ->
            [Raised("KeyError", "was not found in the Ollama registry")
                EXCEPT !.names = ref]
      [] exc = "HTTPError" -> Raised("KeyError", "failed to pull")
      [] OTHER -> Raised(exc, "-")

NetErrors == {"HTTPError Not Found", "HTTPError", "URLError"}

\* line 55
fetch_manifest_data ==
    /\ pc = "fetch_manifest_data"
    /\ \/ \E m \in Manifests :
            /\ pc' = "pull_config_blob"
            /\ cur' = [cur EXCEPT !.layers = m.layers, !.digest = m.config.digest,
                                  !.reqM = @ + 1,
                                  !.model_hash = get_model_hash(m)]
            /\ result' = result
       \/ \E e \in NetErrors :
            /\ pc' = "done"
            /\ cur' = Finish([cur EXCEPT !.reqM = @ + 1, !.http = e])
            /\ result' = PullError(e, cur.ref)
    /\ UNCHANGED <<mode, blobs, snap, fblobs, ms, hf, ident>>

\* lines 21-29, 56; the registry's config blob is small and not verified
pull_config_blob ==
    /\ pc = "pull_config_blob"
    /\ \/ \E b \in {Good(cur.digest)} :
            LET w == download_file(blobs, fblobs, cur.digest, b) IN
            /\ blobs' = w.blobs
            /\ fblobs' = w.fblobs
            /\ pc' = "init_pull"
            /\ cur' = [cur EXCEPT !.reqB = 1, !.digest = "-"]
            /\ result' = result
       \/ \E e \in NetErrors :
            /\ pc' = "done"
            /\ cur' = Finish([cur EXCEPT !.reqB = 1, !.http = e])
            /\ result' = PullError(e, cur.ref)
            /\ UNCHANGED <<blobs, fblobs>>
    /\ UNCHANGED <<mode, snap, ms, hf, ident>>

\* lines 57-64: the loop over the manifest's layers
init_pull ==
    /\ pc = "init_pull"
    /\ IF cur.layers = <<>>
       THEN /\ pc' = "done"
            /\ result' = Returned(cur.model_path)
            /\ cur' = Finish(cur)
       ELSE LET layer == Head(cur.layers) IN
            /\ result' = result
            /\ IF layer.mediaType # MODEL_TYPE
               THEN /\ pc' = "init_pull"
                    /\ cur' = [cur EXCEPT !.layers = Tail(@)]
               ELSE /\ pc' = "in_existing_cache"
                    /\ cur' = [cur EXCEPT !.layers = Tail(@), !.digest = layer.digest,
                                          !.dir = 1, !.local_blob = NoPath,
                                          !.dl = 0, !.vf = 0]
    /\ UNCHANGED <<mode, blobs, snap, fblobs, ms, hf, ident>>

\* lines 36-38 and 67-87: one candidate directory of in_existing_cache, and
\* the link pull_blob makes when a blob was found
in_existing_cache ==
    /\ pc = "in_existing_cache"
    /\ \E avail \in IF cur.dir = 1 THEN BOOLEAN ELSE {TRUE},
          r \in {ScanCandidate(fblobs, default_ollama_caches[cur.dir], file) :
                    file \in ForeignFiles} :
        IF ~avail
        THEN /\ pc' = "download_file"
             /\ cur' = [cur EXCEPT !.dir = 0]
             /\ UNCHANGED <<blobs, result>>
        ELSE CASE r.kind = "found" ->
                    /\ blobs' = [blobs EXCEPT ![cur.digest] = LinkBlob(r.path)]
                    /\ pc' = "link_model"
                    /\ cur' = [cur EXCEPT !.dir = 0, !.local_blob = r.path]
                    /\ result' = result
               [] r.kind = "none" ->
                    /\ IF cur.dir < Len(default_ollama_caches)
                       THEN /\ pc' = "in_existing_cache"
                            /\ cur' = [cur EXCEPT !.dir = @ + 1]
                       ELSE /\ pc' = "download_file"
                            /\ cur' = [cur EXCEPT !.dir = 0]
                    /\ UNCHANGED <<blobs, result>>
               [] OTHER ->
                    /\ pc' = "done"
                    /\ cur' = Finish(cur)
                    /\ result' = Raised(r.kind, ProbeFailure)
                    /\ UNCHANGED blobs
    /\ UNCHANGED <<mode, snap, fblobs, ms, hf, ident>>

\* lines 40 and 45: download_file(url, layer_blob_path)
pull_blob_download ==
    /\ pc = "download_file"
    /\ \/ \E b \in {Good(cur.digest), Corrupt} :
            LET w == download_file(blobs, fblobs, cur.digest, b) IN
            /\ blobs' = w.blobs
            /\ fblobs' = w.fblobs
            /\ pc' = "verify_checksum"
            /\ cur' = [cur EXCEPT !.dl = @ + 1, !.reqB = 1]
            /\ result' = result
       \/ \E e \in NetErrors :
            /\ pc' = "done"
            /\ cur' = Finish([cur EXCEPT !.dl = @ + 1, !.reqB = 1, !.http = e])
            /\ result' = PullError(e, cur.ref)
            /\ UNCHANGED <<blobs, fblobs>>
    /\ UNCHANGED <<mode, snap, ms, hf, ident>>

\* lines 42-46: only the first mismatch is followed by another download; vf
\* counts the mismatches of this pull_blob so far
RetryAlways(vf) == TRUE
Retry(vf) == vf = 0

\* lines 42-47: verification, the removal of a corrupt first download, and
\* the error after a corrupt second one
pull_blob_verify ==
    /\ pc = "verify_checksum"
    /\ IF verify_checksum(blobs, fblobs, cur.digest)
       THEN /\ pc' = "link_model"
            /\ UNCHANGED <<blobs, cur, result>>
       ELSE IF Retry(cur.vf)
       THEN /\ blobs' = [blobs EXCEPT ![cur.digest] = NoBlob]
            /\ pc' = "download_file"
            /\ cur' = [cur EXCEPT !.vf = 1]
            /\ result' = result
       ELSE /\ pc' = "done"
            /\ cur' = Finish([cur EXCEPT !.vf = 2])
            /\ result' = [kind |-> "ValueError",
                          path |-> <<"blobs", cur.digest>>,
                          what |-> "Checksum verification failed for blob",
                          names |-> NoRef]
            /\ UNCHANGED blobs
    /\ UNCHANGED <<mode, snap, fblobs, ms, hf, ident>>

\* lines 49-51: ln -sf <relative path of the blob> model_path
pull_blob_link ==
    /\ pc = "link_model"
    /\ snap' = [snap EXCEPT ![cur.model_path] = cur.digest]
    /\ pc' = "init_pull"
    /\ cur' = [cur EXCEPT !.digest = "-"]
    /\ UNCHANGED <<mode, blobs, fblobs, result, ms, hf, ident>>

----------------------------------------------------------------------------
(* Ollama.exists, Ollama.path and Ollama.model_path *)

\* the references an object of this run may stand for: with a model store
\* the one of that store
ObjectRefs == IF mode = "store" THEN {ms.ref} ELSE Refs

\* lines 214-219
exists ==
    /\ pc \in {"idle", "done"}
    /\ \E ref \in ObjectRefs :
        LET loc == Local(ref) IN
        /\ cur' = [IdleCur EXCEPT !.op = "exists", !.ref = ref,
                                  !.model_path = loc.model_path]
        /\ result' = IF PathExists(snap, blobs, fblobs, loc.model_path)
                      THEN Returned(loc.model_path)
                      ELSE ReturnedNone
    /\ pc' = "done"
    /\ UNCHANGED <<mode, blobs, snap, fblobs, ms, hf, ident>>

\* lines 221-226: Ollama.path
Ollama_path ==
    /\ pc \in {"idle", "done"}
    /\ \E ref \in ObjectRefs :
        LET loc == Local(ref) IN
        /\ cur' = [IdleCur EXCEPT !.op = "path", !.ref = ref,
                                  !.model_path = loc.model_path]
        /\ result' = IF PathExists(snap, blobs, fblobs, loc.model_path)
                      THEN Returned(loc.model_path)
                      ELSE [Raised("KeyError", "does not exist") EXCEPT !.names = ref]
    /\ pc' = "done"
    /\ UNCHANGED <<mode, blobs, snap, fblobs, ms, hf, ident>>

\* lines 250-265: the directory under models/ollama, and the file name's parts
Ollama_model_path(ref) ==
    LET model_tag == IF ref.tag = "" THEN "latest" ELSE ref.tag
        models == IF ref.ns = "" THEN "" ELSE ref.ns
    IN  <<models, ref.name, model_tag>>

\* a path that _local computed, spelled with its directory under models/ollama
InModels(model_path) == <<"", model_path[1], model_path[2]>>

----------------------------------------------------------------------------
(* OllamaRepository *)

FILE_NAME_CONFIG == "config.json"
FILE_NAME_CHAT_TEMPLATE == "chat_template"

SnapshotFile(digest, name, verify) ==
    [url |-> <<"blobs", digest>>, hash |-> digest, name |-> name,
     should_verify_checksum |-> verify]

get_file_list_ignoring_cache(name, manifest, cached_files, is_model_in_ollama_cache) ==
    (IF name \notin cached_files /\ get_model_hash(manifest) # ""
     THEN <<SnapshotFile(get_model_hash(manifest), name, TRUE)>> ELSE <<>>)
    \o (IF FILE_NAME_CONFIG \notin cached_files
        THEN <<SnapshotFile(manifest.config.digest, FILE_NAME_CONFIG, FALSE)>>
        ELSE <<>>)
    \o (IF FILE_NAME_CHAT_TEMPLATE \notin cached_files
             /\ get_chat_template_hash(manifest) # ""
        THEN <<SnapshotFile(get_chat_template_hash(manifest),
                            FILE_NAME_CHAT_TEMPLATE, FALSE)>>
        ELSE <<>>)

\* lines 112-128, with model_file, config_file and chat_template_file
get_file_list(name, manifest, cached_files, is_model_in_ollama_cache) ==
    LET model ==
            IF name \notin cached_files /\ ~is_model_in_ollama_cache
                 /\ get_model_hash(manifest) # ""
            THEN <<SnapshotFile(get_model_hash(manifest), name, TRUE)>>
            ELSE <<>>
        config ==
            IF FILE_NAME_CONFIG \notin cached_files
            THEN <<SnapshotFile(manifest.config.digest, FILE_NAME_CONFIG, FALSE)>>
            ELSE <<>>
        chat_template ==
            IF FILE_NAME_CHAT_TEMPLATE \notin cached_files
                 /\ get_chat_template_hash(manifest) # ""
            THEN <<SnapshotFile(get_chat_template_hash(manifest),
                                FILE_NAME_CHAT_TEMPLATE, FALSE)>>
            ELSE <<>>
    IN  model \o config \o chat_template

\* lines 104-110: how fetch_manifest turns an HTTP error into its own
\* name and tag as extract_model_identifiers returns them, which the error
\* messages of the model-store path spell as name:tag
NameAndTag(ref) ==
    [ns |-> "-", name |-> ref.name, tag |-> IF ref.tag = "" THEN "latest" ELSE ref.tag]

FetchManifestError(exc, ref) ==
    CASE exc = "HTTPError Not Found" ->
            [Raised("KeyError", "Manifest was not found in the Ollama registry")
                EXCEPT !.names = NameAndTag(ref)]
      [] exc = "HTTPError" -> Raised("KeyError", "failed to fetch manifest")
      [] OTHER -> Raised(exc, "-")

----------------------------------------------------------------------------
(* Ollama._pull_with_modelstore *)

\* store.get_cached_files(tag): (hash, cached_files, all)
get_cached_files(snapshot, name) ==
    [hash |-> snapshot.hash,
     cached_files |-> snapshot.cached,
     all |-> {name, FILE_NAME_CONFIG} \subseteq snapshot.cached]

\* store.get_snapshot_file_path(hash, name)
get_snapshot_file_path(hash, name) == <<hash, name>>

\* lines 267-271
pull_with_modelstore ==
    /\ mode = "store"
    /\ pc \in {"idle", "done"}
    /\ LET ref == ms.ref
           c == get_cached_files(ms.snapshot, ref.name)
       IN
        IF c.all
        THEN /\ pc' = "done"
             /\ cur' = [IdleCur EXCEPT !.op = "pull", !.ref = ref, !.short = TRUE]
             /\ result' = Returned(get_snapshot_file_path(c.hash, ref.name))
        ELSE /\ pc' = "ms_fetch_manifest"
             /\ cur' = [IdleCur EXCEPT !.op = "pull", !.ref = ref]
             /\ result' = NoResult
    /\ UNCHANGED <<mode, blobs, snap, fblobs, ms, hf, ident>>

\* lines 273-274, 104-110
ms_fetch_manifest ==
    /\ pc = "ms_fetch_manifest"
    /\ \/ \E m \in Manifests :
            /\ pc' = "ms_in_existing_cache"
            /\ cur' = [cur EXCEPT !.layers = m.layers, !.reqM = @ + 1, !.dir = 1]
            /\ result' = result
       \/ \E e \in NetErrors :
            /\ pc' = "done"
            /\ cur' = Finish([cur EXCEPT !.reqM = @ + 1, !.http = e])
            /\ result' = FetchManifestError(e, cur.ref)
    /\ UNCHANGED <<mode, blobs, snap, fblobs, ms, hf, ident>>

\* lines 275-276 and 67-87: one candidate directory of in_existing_cache
ms_in_existing_cache ==
    /\ pc = "ms_in_existing_cache"
    /\ \E avail \in IF cur.dir = 1 THEN BOOLEAN ELSE {TRUE},
          r \in {ScanCandidate(fblobs, default_ollama_caches[cur.dir], file) :
                    file \in ForeignFiles} :
        IF ~avail
        THEN /\ pc' = "ms_get_file_list"
             /\ cur' = [cur EXCEPT !.dir = 0]
             /\ result' = result
        ELSE CASE r.kind = "found" ->
                    /\ pc' = "ms_get_file_list"
                    /\ cur' = [cur EXCEPT !.dir = 0, !.local_blob = r.path]
                    /\ result' = result
               [] r.kind = "none" ->
                    /\ IF cur.dir < Len(default_ollama_caches)
                       THEN /\ pc' = "ms_in_existing_cache"
                            /\ cur' = [cur EXCEPT !.dir = @ + 1]
                       ELSE /\ pc' = "ms_get_file_list"
                            /\ cur' = [cur EXCEPT !.dir = 0]
                    /\ result' = result
               [] OTHER ->
                    /\ pc' = "done"
                    /\ cur' = Finish(cur)
                    /\ result' = Raised(r.kind, ProbeFailure)
    /\ UNCHANGED <<mode, blobs, snap, fblobs, ms, hf, ident>>

\* lines 277-279: get_file_list is called without the manifest, so it fetches
\* the manifest again; model_hash is read from the first one
ms_get_file_list ==
    /\ pc = "ms_get_file_list"
    /\ \/ \E m \in Manifests :
            LET c == get_cached_files(ms.snapshot, cur.ref.name)
                manifest == [config |-> [digest |-> CfgDigest], layers |-> cur.layers]
            IN
            /\ pc' = "ms_new_snapshot"
            /\ cur' = [cur EXCEPT
                         !.files = get_file_list(cur.ref.name, m, c.cached_files,
                                                 cur.local_blob # NoPath),
                         !.digest = get_model_hash(manifest),
                         !.layers = <<>>,
                         !.reqM = @ + 1]
            /\ result' = result
       \/ \E e \in NetErrors :
            /\ pc' = "done"
            /\ cur' = Finish([cur EXCEPT !.reqM = @ + 1, !.http = e])
            /\ result' = FetchManifestError(e, cur.ref)
    /\ UNCHANGED <<mode, blobs, snap, fblobs, ms, hf, ident>>

\* lines 280-285, how an HTTP error of new_snapshot is turned into a KeyError
NewSnapshotError(exc, ref) ==
    CASE exc = "HTTPError Not Found" ->
            [Raised("KeyError", "was not found in the Ollama registry")
                EXCEPT !.names = NameAndTag(ref)]
      [] exc = "HTTPError" -> Raised("KeyError", "failed to fetch snapshot files")
      [] OTHER -> Raised(exc, "-")

\* store.new_snapshot(tag, model_hash, files): every file is fetched (and
\* verified when it asks for it); a failure leaves no snapshot behind
new_snapshot(snapshot, model_hash, files) ==
    [hash |-> model_hash,
     cached |-> snapshot.cached \cup {files[i].name : i \in DOMAIN files},
     link |-> NoPath,
     ret |-> NoPath]

\* the files of a list that must pass a checksum
Verified(files) == {i \in DOMAIN files : files[i].should_verify_checksum}

\* lines 280-285
ms_new_snapshot ==
    /\ pc = "ms_new_snapshot"
    /\ LET n == Cardinality({i \in DOMAIN cur.files : cur.files[i].name = cur.ref.name})
           requested == [cur EXCEPT !.dl = n,
                                    !.reqB = IF cur.files = <<>> THEN 0 ELSE 1]
       IN
       \/ /\ ms' = [ms EXCEPT !.snapshot = new_snapshot(@, cur.digest, cur.files)]
          /\ pc' = "ms_symlink"
          /\ cur' = requested
          /\ result' = result
       \/ /\ cur.files # <<>>
          /\ \E e \in NetErrors :
                /\ pc' = "done"
                /\ cur' = Finish([requested EXCEPT !.http = e])
                /\ result' = NewSnapshotError(e, cur.ref)
                /\ ms' = ms
       \/ /\ Verified(cur.files) # {}
          /\ pc' = "done"
          /\ cur' = Finish(requested)
          /\ result' = Raised("ValueError", "Checksum verification failed")
          /\ ms' = ms
    /\ UNCHANGED <<mode, blobs, snap, fblobs, hf, ident>>

\* lines 287-292
ms_symlink ==
    /\ pc = "ms_symlink"
    /\ LET ret == get_snapshot_file_path(cur.digest, cur.ref.name) IN
       IF cur.local_blob # NoPath
       THEN ms' = [ms EXCEPT !.snapshot.link = cur.local_blob,
                             !.snapshot.cached = @ \cup {cur.ref.name},
                             !.snapshot.ret = ret]
       ELSE ms' = [ms EXCEPT !.snapshot.ret = ret]
    /\ pc' = "done"
    /\ result' = Returned(get_snapshot_file_path(cur.digest, cur.ref.name))
    /\ cur' = Finish(cur)
    /\ UNCHANGED <<mode, blobs, snap, fblobs, hf, ident>>

Next ==
    \/ pull
    \/ exists
    \/ Ollama_path
    \/ pull_with_modelstore
    \/ ms_fetch_manifest
    \/ ms_in_existing_cache
    \/ ms_get_file_list
    \/ ms_new_snapshot
    \/ ms_symlink
    \/ fetch_manifest_data
    \/ pull_config_blob
    \/ init_pull
    \/ in_existing_cache
    \/ pull_blob_download
    \/ pull_blob_verify
    \/ pull_blob_link

Spec == Init /\ [][Next]_vars

----------------------------------------------------------------------------
(* HuggingfaceRepository.fetch_metadata *)

None == "None"

\* what fetch_repo_manifest may answer: an exception, or a JSON document
GgufFiles ==
    {[present |-> FALSE, rfilename |-> MISSING, blobId |-> MISSING],
     [present |-> TRUE, rfilename |-> "model.gguf", blobId |-> "sha256:g"],
     [present |-> TRUE, rfilename |-> "model.gguf", blobId |-> MISSING],
     [present |-> TRUE, rfilename |-> MISSING, blobId |-> "sha256:g"]}
MmprojFiles ==
    {[present |-> FALSE, rfilename |-> MISSING, blobId |-> MISSING],
     [present |-> TRUE, rfilename |-> "mmproj.gguf", blobId |-> "sha256:p"],
     [present |-> TRUE, rfilename |-> "mmproj.gguf", blobId |-> MISSING]}
RepoManifests ==
    {[raises |-> e, ggufFile |-> CHOOSE g \in GgufFiles : ~g.present,
      mmprojFile |-> CHOOSE g \in MmprojFiles : ~g.present] :
        e \in {"HTTPError", "JSONDecodeError", "KeyError", "URLError"}}
      \cup {[raises |-> "-", ggufFile |-> g, mmprojFile |-> p] :
                g \in GgufFiles, p \in MmprojFiles}

\* what fetch_repo_files may list; a real tree names every path once
FILE_NAME_GENERATION_CONFIG == "generation_config.json"
FILE_NAME_TOKENIZER_CONFIG == "tokenizer_config.json"
FileInfos ==
    {[type |-> "file", path |-> "model-00001-of-00002.safetensors", oid |-> "o1", lfs |-> "l1"],
     [type |-> "file", path |-> "model-00002-of-00002.safetensors", oid |-> "o2", lfs |-> MISSING],
     [type |-> "file", path |-> "model.safetensors.index.json", oid |-> "o3", lfs |-> MISSING],
     [type |-> "file", path |-> "config.json", oid |-> "o4", lfs |-> MISSING],
     [type |-> "file", path |-> "README.md", oid |-> MISSING, lfs |-> MISSING],
     [type |-> "directory", path |-> "onnx.safetensors", oid |-> "o6", lfs |-> MISSING],
     [type |-> "file", path |-> MISSING, oid |-> "o7", lfs |-> MISSING]}
Listings ==
    {l \in SeqsUpTo(FileInfos, MaxListing) :
        \A i, j \in DOMAIN l : l[i].path = l[j].path => i = j}

\* fnmatch.fnmatch(path, '*.safetensors') and (path, '*.safetensors.index.json')
IsSafetensors(path) ==
    path \in {"model-00001-of-00002.safetensors", "model-00002-of-00002.safetensors",
              "onnx.safetensors"}
IsSafetensorsIndex(path) == path = "model.safetensors.index.json"

\* the position of a path in the order of Python's string comparison
Rank(path) ==
    CASE path = "README.md" -> 1
      [] path = "config.json" -> 2
      [] path = "model-00001-of-00002.safetensors" -> 3
      [] path = "model-00002-of-00002.safetensors" -> 4
      [] path = "model.safetensors.index.json" -> 5
      [] path = "onnx.safetensors" -> 6
      [] OTHER -> 7

\* the text the checksum endpoint may return, as its lines
ChecksumPayloads ==
    {<<[start |-> "version ", rest |-> "https://git-lfs.github.com/spec/v1"],
       [start |-> "oid sha256:", rest |-> "h1"],
       [start |-> "size ", rest |-> "42"]>>,
     <<[start |-> "oid sha256:", rest |-> "h2"]>>,
     <<[start |-> "version ", rest |-> "https://git-lfs.github.com/spec/v1"],
       [start |-> "size ", rest |-> "42"]>>,
     <<>>}

\* lines 38-44: the text after "oid sha256:", or the ValueError
RECURSIVE extract_huggingface_checksum(_)
extract_huggingface_checksum_or_empty(data) == [raises |-> "-", value |-> ""]
extract_huggingface_checksum(data) ==
    IF data = <<>> THEN [raises |-> "ValueError", value |-> "-"]
    ELSE IF Head(data).start = "oid sha256:"
         THEN [raises |-> "-", value |-> Head(data).rest]
         ELSE extract_huggingface_checksum(Tail(data))

\* lines 127-132
collect_file(file_list, file_info) ==
    Append(file_list,
           [filename |-> file_info.path,
            oid |-> IF file_info.lfs # MISSING THEN file_info.lfs
                    ELSE IF file_info.oid # MISSING THEN file_info.oid ELSE ""])

\* lines 149-163: the loop over the listing; acc is what it has gathered
RECURSIVE ScanFiles(_, _)
ScanFiles(files, acc) ==
    IF files = <<>> THEN acc
    ELSE LET file_info == Head(files) IN
         IF file_info.type # "file" THEN ScanFiles(Tail(files), acc)
         ELSE IF file_info.path = MISSING THEN [acc EXCEPT !.raises = "KeyError"]
         ELSE IF IsSafetensors(file_info.path)
              THEN ScanFiles(Tail(files),
                     [acc EXCEPT !.safetensors_files = collect_file(@, file_info)])
         ELSE IF IsSafetensorsIndex(file_info.path)
              THEN ScanFiles(Tail(files), [acc EXCEPT !.index_file = file_info.path])
         ELSE IF file_info.path \in {FILE_NAME_CONFIG, FILE_NAME_GENERATION_CONFIG,
                                     FILE_NAME_TOKENIZER_CONFIG}
              THEN ScanFiles(Tail(files), acc)
         ELSE ScanFiles(Tail(files),
                [acc EXCEPT !.other_files = collect_file(@, file_info)])

\* line 170: safetensors_files.sort(key=filename), a stable insertion
RECURSIVE Insert(_, _)
InsertLast(sorted, x) == Append(sorted, x)
Insert(sorted, x) ==
    IF sorted = <<>> THEN <<x>>
    ELSE IF Rank(x.filename) < Rank(Head(sorted).filename)
         THEN <<x>> \o sorted
         ELSE <<Head(sorted)>> \o Insert(Tail(sorted), x)
RECURSIVE SortByFilename(_)
SortByFilename(list) ==
    IF list = <<>> THEN <<>>
    ELSE Insert(SortByFilename(SubSeq(list, 1, Len(list) - 1)), list[Len(list)])

InitHF ==
    /\ mode = "direct"
    /\ blobs = [d \in StoreDigests |-> NoBlob]
    /\ snap = [p \in SnapPaths |-> "-"]
    /\ fblobs = [p \in ForeignPaths |-> "-"]
    /\ pc = "idle"
    /\ cur = IdleCur
    /\ result = NoResult
    /\ ms = MsInit
    /\ hf = [HfInit EXCEPT !.pc = "fetch_metadata"]
    /\ ident = NoIdent

AfterManifestSkipsListing(found) ==
    IF found THEN "token" ELSE "raise"

\* line 192: where fetch_metadata goes once _fetch_manifest_metadata returned
AfterManifest(found) ==
    IF found THEN "token" ELSE "_fetch_safetensors_metadata"

\* lines 192-193: where it goes once _fetch_safetensors_metadata returned
AfterSafetensors(found) ==
    IF found THEN "token" ELSE "raise"

\* lines 190-192 and 107-125: fetch_metadata calls _fetch_manifest_metadata
fetch_manifest_metadata ==
    /\ hf.pc = "fetch_metadata"
    /\ \E m \in RepoManifests :
        LET tried == Append(hf.tried, "manifest") IN
        IF m.raises = "URLError"
        THEN hf' = [hf EXCEPT !.pc = "done", !.tried = tried, !.manifest = "URLError",
                              !.result = Raised("URLError", "-")]
        ELSE IF m.raises # "-"
        THEN hf' = [hf EXCEPT !.pc = AfterManifest(FALSE), !.tried = tried,
                              !.manifest = m.raises]
        ELSE IF ~m.ggufFile.present \/ m.ggufFile.rfilename = MISSING
        THEN hf' = [hf EXCEPT !.pc = AfterManifest(FALSE), !.tried = tried,
                              !.manifest = "no ggufFile"]
        ELSE IF m.ggufFile.blobId = MISSING
        THEN hf' = [hf EXCEPT !.pc = AfterManifest(FALSE), !.tried = tried,
                              !.manifest = "no ggufFile",
                              !.model_filename = m.ggufFile.rfilename]
        ELSE hf' = [hf EXCEPT !.pc = AfterManifest(TRUE), !.tried = tried,
                              !.manifest = "found",
                              !.model_filename = m.ggufFile.rfilename,
                              !.model_hash = m.ggufFile.blobId,
                              !.mmproj_filename =
                                  IF m.mmprojFile.present /\ m.mmprojFile.rfilename # MISSING
                                  THEN m.mmprojFile.rfilename ELSE None,
                              !.mmproj_hash =
                                  IF m.mmprojFile.present /\ m.mmprojFile.blobId # MISSING
                                  THEN m.mmprojFile.blobId ELSE None]
    /\ UNCHANGED <<mode, blobs, snap, fblobs, pc, cur, result, ms, ident>>

\* lines 134-141: _fetch_safetensors_metadata asks for the file listing
fetch_repo_files ==
    /\ hf.pc = "_fetch_safetensors_metadata"
    /\ LET tried == Append(hf.tried, "safetensors") IN
       \/ \E l \in Listings :
            hf' = [hf EXCEPT !.pc = "scan", !.tried = tried, !.files = l]
       \/ \E e \in {"HTTPError", "JSONDecodeError", "KeyError"} :
            hf' = [hf EXCEPT !.pc = AfterSafetensors(FALSE), !.tried = tried,
                             !.safetensors = e]
       \/ hf' = [hf EXCEPT !.pc = "done", !.tried = tried, !.safetensors = "URLError",
                           !.result = Raised("URLError", "-")]
    /\ UNCHANGED <<mode, blobs, snap, fblobs, pc, cur, result, ms, ident>>

\* lines 143-174: the listing is partitioned, the shards sorted, the first
\* shard made the model file
scan_repo_files ==
    /\ hf.pc = "scan"
    /\ LET got == ScanFiles(hf.files,
                     [raises |-> "-", safetensors_files |-> <<>>,
                      other_files |-> <<>>, index_file |-> None])
           sorted == SortByFilename(got.safetensors_files)
       IN
       IF got.raises # "-"
       THEN hf' = [hf EXCEPT !.pc = AfterSafetensors(FALSE), !.files = <<>>,
                             !.safetensors = got.raises,
                             !.other_files = got.other_files]
       ELSE IF got.safetensors_files = <<>>
       THEN hf' = [hf EXCEPT !.pc = AfterSafetensors(FALSE), !.files = <<>>,
                             !.safetensors = "no safetensors files",
                             !.other_files = got.other_files]
       ELSE hf' = [hf EXCEPT !.pc = "checksum",
                             !.other_files = got.other_files,
                             !.shards = sorted,
                             !.index_file = got.index_file,
                             !.model_filename = sorted[1].filename]
    /\ UNCHANGED <<mode, blobs, snap, fblobs, pc, cur, result, ms, ident>>

\* lines 175-188: the checksum of the model file is fetched and parsed
fetch_checksum_from_api ==
    /\ hf.pc = "checksum"
    /\ \E data \in ChecksumPayloads :
        LET sum == extract_huggingface_checksum(data) IN
        IF sum.raises # "-"
        THEN hf' = [hf EXCEPT !.pc = AfterSafetensors(FALSE), !.shards = <<>>,
                              !.files = <<>>, !.index_file = "-",
                              !.payload = [fetched |-> TRUE, lines |-> data],
                              !.safetensors = sum.raises]
        ELSE hf' = [hf EXCEPT !.pc = AfterSafetensors(TRUE), !.shards = <<>>,
                              !.files = <<>>, !.index_file = "-",
                              !.payload = [fetched |-> TRUE, lines |-> data],
                              !.safetensors = "found",
                              !.safetensors_index_file = hf.index_file,
                              !.model_hash = <<"sha256:", sum.value>>,
                              !.additional_safetensor_files = Tail(hf.shards)]
    /\ UNCHANGED <<mode, blobs, snap, fblobs, pc, cur, result, ms, ident>>

\* lines 193-197: the KeyError after both strategies failed, or the return
fetch_metadata_end ==
    /\ hf.pc \in {"token", "raise"}
    /\ hf' = [hf EXCEPT !.pc = "done",
                        !.result = IF hf.pc = "raise"
                                   THEN Raised("KeyError", "No metadata found")
                                   ELSE Returned(NoPath)]
    /\ UNCHANGED <<mode, blobs, snap, fblobs, pc, cur, result, ms, ident>>

NextHF ==
    \/ fetch_manifest_metadata
    \/ fetch_repo_files
    \/ scan_repo_files
    \/ fetch_checksum_from_api
    \/ fetch_metadata_end

SpecHF == InitHF /\ [][NextHF]_vars

----------------------------------------------------------------------------
(* OllamaRepository.get_file_list, called with a manifest, for every input *)

CachedFileNames == {"foo", FILE_NAME_CONFIG, FILE_NAME_CHAT_TEMPLATE}

\* the arguments of a call: self.name in cur.ref, the manifest's layers in
\* cur.layers, cached_files in the store's snapshot, and whether
\* in_existing_cache found the model in cur.local_blob
InitFileList ==
    /\ mode = "store"
    /\ blobs = [d \in StoreDigests |-> NoBlob]
    /\ snap = [p \in SnapPaths |-> "-"]
    /\ fblobs = [p \in ForeignPaths |-> "-"]
    /\ pc = "get_file_list"
    /\ result = NoResult
    /\ hf = HfInit
    /\ ident = NoIdent
    /\ \E ref \in Refs, m \in Manifests, cached_files \in SUBSET CachedFileNames,
          ollama_cache_path \in {NoPath} \cup ForeignPaths :
          /\ ms = [ref |-> ref,
                   snapshot |-> [NoSnapshot EXCEPT !.cached = cached_files]]
          /\ cur = [IdleCur EXCEPT !.ref = ref, !.layers = m.layers,
                                   !.local_blob = ollama_cache_path]

\* lines 112-128
call_get_file_list ==
    /\ pc = "get_file_list"
    /\ pc' = "returned"
    /\ cur' = [cur EXCEPT !.files =
                 get_file_list(cur.ref.name,
                               [config |-> [digest |-> CfgDigest], layers |-> cur.layers],
                               ms.snapshot.cached, cur.local_blob # NoPath)]
    /\ UNCHANGED <<mode, blobs, snap, fblobs, result, ms, hf, ident>>

NextFileList == call_get_file_list

SpecFileList == InitFileList /\ [][NextFileList]_vars

----------------------------------------------------------------------------
(* Model references: the tag of a reference *)

\* tags as a user may spell them; "" is a reference without a tag
Tags == {"", "latest", "Latest", "q4_k_m", "Q4_K_M", "Q4_k_m", "main"}
\* organizations: none, a repository's owner, and <org>/<repo> of a file URL
Organizations == {"", "org", "org/repo"}
ModelNames == {"foo", "bar"}

\* str.upper()
Upper(tag) ==
    CASE tag = "latest" -> "LATEST"
      [] tag = "Latest" -> "LATEST"
      [] tag = "q4_k_m" -> "Q4_K_M"
      [] tag = "Q4_k_m" -> "Q4_K_M"
      [] tag = "main" -> "MAIN"
      [] OTHER -> tag

\* '/' in model_organization
HasSlash(organization) == organization = "org/repo"

\* the extract_model_identifiers of the base class: the tag of the reference,
\* or "latest" when it has none
base_extract_model_identifiers(id) ==
    [id EXCEPT !.tag = IF id.tag = "" THEN "latest" ELSE id.tag]

extract_model_identifiers_upper_always(id) ==
    [base_extract_model_identifiers(id) EXCEPT !.tag = Upper(@)]

\* lines 255-261
extract_model_identifiers(id) ==
    LET b == base_extract_model_identifiers(id) IN
    IF ~HasSlash(b.organization) /\ b.tag # "latest"
    THEN [b EXCEPT !.tag = Upper(b.tag)]
    ELSE b

\* Ollama._local, lines 204-208: the tag of model_full
local_model_tag(id) ==
    [id EXCEPT !.tag = IF id.tag = "" THEN "latest" ELSE id.tag]

MaxCalls == 2

InitIdentifiers ==
    /\ mode = "direct"
    /\ blobs = [d \in StoreDigests |-> NoBlob]
    /\ snap = [p \in SnapPaths |-> "-"]
    /\ fblobs = [p \in ForeignPaths |-> "-"]
    /\ pc = "idle"
    /\ cur = IdleCur
    /\ result = NoResult
    /\ ms = MsInit
    /\ hf = HfInit
    /\ \E transport \in {"huggingface", "ollama"}, organization \in Organizations,
          name \in ModelNames, tag \in Tags :
          ident = [transport |-> transport, organization |-> organization,
                   name |-> name, given |-> tag, tag |-> tag, calls |-> 0]

\* Huggingface.extract_model_identifiers on the reference, and again on the
\* reference spelled with the identifiers it returned
call_extract_model_identifiers ==
    /\ ident.transport = "huggingface"
    /\ ident.calls < MaxCalls
    /\ ident' = [extract_model_identifiers(ident) EXCEPT !.calls = @ + 1]
    /\ UNCHANGED <<mode, blobs, snap, fblobs, pc, cur, result, ms, hf>>

\* Ollama._local on the reference, and again on name:tag as it returned them
call_local ==
    /\ ident.transport = "ollama"
    /\ ident.calls < MaxCalls
    /\ ident' = [local_model_tag(ident) EXCEPT !.calls = @ + 1]
    /\ UNCHANGED <<mode, blobs, snap, fblobs, pc, cur, result, ms, hf>>

NextIdentifiers ==
    \/ call_extract_model_identifiers
    \/ call_local

SpecIdentifiers == InitIdentifiers /\ [][NextIdentifiers]_vars

----------------------------------------------------------------------------
(* The claims *)

\* C1: in a pull_blob that the foreign cache does not satisfy, a first failed
\* verification deletes the local copy and is followed by exactly one more
\* download and verification; a pull_blob downloads at most twice; a second
\* failed verification ends the pull with the checksum error naming the blob
\* path that failed, without a third download.
C1_RetryOnce ==
    mode = "direct" =>
        /\ cur.dl <= 2
        /\ (cur.dl = 2 => cur.vf >= 1)
        /\ (pc = "download_file" /\ cur.vf = 1 =>
                cur.dl = 1 /\ blobs[cur.digest] = NoBlob)
        /\ (cur.vf = 2 =>
                /\ pc = "done"
                /\ cur.dl = 2
                /\ result.kind = "ValueError"
                /\ result.what = "Checksum verification failed for blob"
                /\ result.path[1] = "blobs"
                /\ result.path[2] \in Digests
                /\ ~verify_checksum(blobs, fblobs, result.path[2]))
        /\ (result.kind = "ValueError" => cur.vf = 2)
C1_Witness == mode = "direct" /\ pc = "done" /\ cur.vf = 2 /\ cur.dl = 2

\* C2: when the first download and the retry both fail verification, the
\* pull ends with the checksum error and nothing is left at the blob path.
C2_NoBlobLeft ==
    (mode = "direct" /\ pc = "done" /\ cur.vf = 2) =>
        /\ result.kind = "ValueError"
        /\ blobs[result.path[2]] = NoBlob

\* C3: a pull that fails while fetching (manifest, config blob, or the
\* download or verification of a model layer) leaves no snapshot that
\* exists() would report for its reference.
C3_FailedPullLeavesNoSnapshot ==
    (mode = "direct" /\ pc = "done" /\ cur.op = "pull"
        /\ result.kind \notin {"ok", "none"} /\ result.what # ProbeFailure) =>
        ~PathExists(snap, blobs, fblobs, cur.model_path)

\* C4: the path a pull returns resolves through its link to an existing
\* blob, so exists() returns it too; a manifest without a model layer does
\* not make the pull return a path.
C4_ReturnedPathExists ==
    (mode = "direct" /\ pc = "done" /\ cur.op = "pull" /\ result.kind = "ok") =>
        PathExists(snap, blobs, fblobs, result.path)

\* C5: after any sequence of pulls, the bytes reached through the store's
\* blob path of a model digest hash to that digest, also when the path is a
\* link to a blob of the foreign cache.
C5_DigestNamesContent ==
    pc \in {"idle", "done"} =>
        \A d \in Digests :
            Content(blobs, fblobs, d) # "-" => Sha256(Content(blobs, fblobs, d)) = d

\* the completeness check of a reference, in either pull path
SnapshotComplete(ref) ==
    IF mode = "direct"
    THEN PathExists(snap, blobs, fblobs, Local(ref).model_path)
    ELSE {ref.name, FILE_NAME_CONFIG} \subseteq ms.snapshot.cached

\* C6: a pull of a reference whose snapshot is complete returns at once: it
\* sends no request for a manifest or a blob, changes nothing in the store,
\* and returns the path the pull that made the snapshot returned (in the
\* direct path, the model_path init_pull returns for that reference).
C6_IdempotentPull ==
    [][(pc \in {"idle", "done"} /\ cur'.op = "pull" /\ SnapshotComplete(cur'.ref)) =>
          /\ pc' = "done"
          /\ result'.kind = "ok"
          /\ cur'.reqM = 0 /\ cur'.reqB = 0 /\ cur'.dl = 0
          /\ UNCHANGED <<blobs, snap, fblobs, ms>>
          /\ IF mode = "direct"
             THEN result'.path = Local(cur'.ref).model_path
             ELSE result'.path = ms.snapshot.ret /\ result'.path # NoPath]_vars
C6_Witness ==
    /\ mode = "direct" /\ pc = "done" /\ cur.op = "pull" /\ cur.short
    /\ result.kind = "ok"
    /\ PathExists(snap, blobs, fblobs, result.path)

\* C7: when in_existing_cache has found a blob of the foreign cache, the pull
\* links to that blob (the store's blob path and through it the snapshot in
\* the direct path, the snapshot's model file in the model-store path) and
\* has sent no download request for the model weights.
C7_ForeignBlobIsLinked ==
    [][(cur.local_blob # NoPath /\ pc \in {"link_model", "ms_symlink"}) =>
          /\ cur.dl = 0 /\ cur'.dl = 0
          /\ fblobs[cur.local_blob] # "-"
          /\ IF mode = "direct"
             THEN /\ blobs'[cur.digest] = LinkBlob(cur.local_blob)
                  /\ snap'[cur.model_path] = cur.digest
             ELSE /\ ms'.snapshot.link = cur.local_blob
                  /\ cur.ref.name \in ms'.snapshot.cached
                  /\ pc' = "done" /\ result'.kind = "ok"]_vars
C7_Witness ==
    /\ mode = "direct" /\ pc = "done" /\ cur.op = "pull"
    /\ result.kind = "ok" /\ ~cur.short
    /\ snap[result.path] # "-"
    /\ blobs[snap[result.path]].kind = "link"
    /\ cur.dl = 0

\* C8: no exception raised while a candidate directory of the foreign cache
\* is probed leaves in_existing_cache and ends the pull.
C8_ProbeErrorsSwallowed == result.what # ProbeFailure

\* C9: no step of any pull changes a blob of the foreign cache.
C9_ForeignCacheUnchanged == [][fblobs' = fblobs]_vars

\* C10: fetch_metadata tries the GGUF manifest first; a manifest without a
\* ggufFile entry sends it on to the safetensors listing; "No metadata found"
\* is raised only after the listing was tried and failed too; the listing is
\* never tried after the manifest resolved.
C10_ManifestThenListing ==
    /\ hf.tried \in {<<>>, <<"manifest">>, <<"manifest", "safetensors">>}
    /\ (hf.manifest = "found" => hf.tried = <<"manifest">>)
    /\ (hf.manifest = "no ggufFile" =>
            \/ hf.pc = "_fetch_safetensors_metadata"
            \/ hf.tried = <<"manifest", "safetensors">>)
    /\ (hf.result.what = "No metadata found" =>
            /\ hf.tried = <<"manifest", "safetensors">>
            /\ hf.manifest \notin {"-", "found"}
            /\ hf.safetensors \notin {"-", "found"})
C10_Witness ==
    /\ hf.pc = "done" /\ hf.manifest = "no ggufFile"
    /\ hf.safetensors = "found" /\ hf.result.kind = "ok"

\* C11: the safetensors listing is tried only after the manifest lookup failed
\* validation; when the manifest request itself fails (an HTTP error response
\* or a transport error) fetch_metadata ends with that error and the listing
\* is never tried.
C11_NetworkFailureFatal ==
    /\ (hf.manifest \in {"HTTPError", "URLError"} =>
            /\ hf.tried = <<"manifest">>
            /\ hf.pc = "done"
            /\ hf.result.kind = hf.manifest)
    /\ (hf.tried = <<"manifest", "safetensors">> =>
            hf.manifest \in {"no ggufFile", "JSONDecodeError", "KeyError"})

\* whether a checksum payload has a line "oid sha256:<hex>"
HasOidLine(data) == \E i \in DOMAIN data : data[i].start = "oid sha256:"

\* C12: when the payload fetched for the model file has no "oid sha256:" line,
\* _fetch_safetensors_metadata fails: no model hash, no additional files and no
\* index file are set from it, and fetch_metadata ends with its metadata error.
C12_NoOidLineFails ==
    (hf.payload.fetched /\ ~HasOidLine(hf.payload.lines)) =>
        /\ hf.safetensors = "ValueError"
        /\ hf.model_hash = "-"
        /\ hf.additional_safetensor_files = <<>>
        /\ hf.safetensors_index_file = "-"
        /\ hf.pc \in {"raise", "done"}
        /\ (hf.pc = "done" =>
                hf.result.kind = "KeyError" /\ hf.result.what = "No metadata found")
C12_Witness ==
    /\ hf.pc = "done" /\ hf.payload.fetched /\ ~HasOidLine(hf.payload.lines)
    /\ hf.result.kind = "KeyError"

\* the paths of a listing's entries of type 'file' that match a pattern
ShardPaths(files) ==
    {files[i].path : i \in {j \in DOMAIN files :
        files[j].type = "file" /\ IsSafetensors(files[j].path)}}
IndexPaths(files) ==
    {files[i].path : i \in {j \in DOMAIN files :
        files[j].type = "file" /\ IsSafetensorsIndex(files[j].path)}}

HasLayer(layers, mediaType) ==
    \E i \in DOMAIN layers : layers[i].mediaType = mediaType

\* C13: get_file_list returns the descriptors that still need fetching, in
\* the order model, config, chat template: the model's iff the manifest has
\* a model layer, the name is not cached and the model is not in the foreign
\* cache; the config's iff config.json is not cached; the template's iff the
\* manifest has a template layer and chat_template is not cached.  No cached
\* file and at most one model descriptor are in it, and each descriptor's
\* hash is the digest its URL ends with.
C13_FileListIsWhatIsMissing ==
    pc = "returned" =>
        LET name == cur.ref.name
            cached_files == ms.snapshot.cached
            files == cur.files
            model == IF HasLayer(cur.layers, MODEL_TYPE) /\ name \notin cached_files
                        /\ cur.local_blob = NoPath
                     THEN <<name>> ELSE <<>>
            config == IF FILE_NAME_CONFIG \notin cached_files
                      THEN <<FILE_NAME_CONFIG>> ELSE <<>>
            chat_template == IF HasLayer(cur.layers, TEMPLATE_TYPE)
                                /\ FILE_NAME_CHAT_TEMPLATE \notin cached_files
                             THEN <<FILE_NAME_CHAT_TEMPLATE>> ELSE <<>>
        IN  /\ [i \in DOMAIN files |-> files[i].name] = model \o config \o chat_template
            /\ \A i \in DOMAIN files : files[i].name \notin cached_files
            /\ Cardinality({i \in DOMAIN files : files[i].name = name}) <= 1
            /\ \A i \in DOMAIN files :
                  /\ files[i].url = <<"blobs", files[i].hash>>
                  /\ files[i].name = name =>
                        \E j \in DOMAIN cur.layers :
                            /\ cur.layers[j].mediaType = MODEL_TYPE
                            /\ cur.layers[j].digest = files[i].hash
                  /\ files[i].name = FILE_NAME_CONFIG => files[i].hash = CfgDigest
                  /\ files[i].name = FILE_NAME_CHAT_TEMPLATE => files[i].hash = TplDigest
C13_Witness ==
    /\ pc = "returned"
    /\ Len(cur.files) = 3
    /\ Len(cur.layers) = 2

\* the letters of a tag without their case
CaseFold(tag) ==
    CASE tag \in {"latest", "Latest", "LATEST"} -> "latest"
      [] tag \in {"q4_k_m", "Q4_k_m", "Q4_K_M"} -> "q4_k_m"
      [] tag \in {"main", "MAIN"} -> "main"
      [] OTHER -> tag
IsUpperCase(tag) == tag \in {"LATEST", "Q4_K_M", "MAIN"}

\* C20: a reference without a tag gets "latest"; the Hugging Face transport
\* upper-cases the tag of a reference whose organization has no '/', unless
\* the tag is "latest", and returns the tag of one whose organization has a
\* '/' as it is; identifiers that were returned come back unchanged.
C20_TagNormalization ==
    [][ident'.calls = ident.calls + 1 =>
          /\ ident'.organization = ident.organization
          /\ ident'.name = ident.name
          /\ (ident.tag = "" => ident'.tag = "latest")
          /\ (ident.transport = "huggingface" /\ ident.tag \notin {"", "latest"}
                /\ ~HasSlash(ident.organization)) =>
                    IsUpperCase(ident'.tag) /\ CaseFold(ident'.tag) = CaseFold(ident.tag)
          /\ (ident.transport = "huggingface" /\ ident.tag # ""
                /\ (HasSlash(ident.organization) \/ ident.tag = "latest")) =>
                    ident'.tag = ident.tag
          /\ (ident.transport = "ollama" /\ ident.tag # "") => ident'.tag = ident.tag
          /\ (ident.calls >= 1 => ident'.tag = ident.tag)]_vars
C20_Witness ==
    /\ ident.transport = "huggingface"
    /\ ident.calls = 2
    /\ ident.given = "Q4_k_m"
    /\ ident.tag = "Q4_K_M"

\* C14: exists and path send no request and change nothing; when the
\* snapshot of the reference is complete both return the path pull returned
\* for it, and when it is not exists returns None and path raises.
C14_ExistsMatchesPull ==
    (pc = "done" /\ cur.op \in {"exists", "path"}) =>
        /\ cur.reqM = 0 /\ cur.reqB = 0 /\ cur.dl = 0
        /\ IF SnapshotComplete(cur.ref)
           THEN /\ result.kind = "ok"
                /\ result.path = IF mode = "direct"
                                 THEN Local(cur.ref).model_path
                                 ELSE ms.snapshot.ret
           ELSE /\ cur.op = "exists" => result.kind = "None"
                /\ cur.op = "path" => result.kind = "KeyError"

\* C15: when a pull links a tag's snapshot to a digest that the snapshot of
\* another tag names already, the store has the one blob of that digest and
\* both snapshots resolve to it.
C15_SharedBlobIsStoredOnce ==
    [][(mode = "direct" /\ pc = "link_model") =>
          \A other \in SnapPaths \ {cur.model_path} :
              snap[other] = cur.digest =>
                  /\ snap'[other] = cur.digest
                  /\ snap'[cur.model_path] = cur.digest
                  /\ blobs'[cur.digest] # NoBlob
                  /\ PathExists(snap', blobs', fblobs', other)
                  /\ PathExists(snap', blobs', fblobs', cur.model_path)]_vars
C15_Witness ==
    /\ mode = "direct" /\ pc = "done" /\ cur.op = "pull" /\ result.kind = "ok"
    /\ ~cur.short
    /\ snap[<<"foo", "latest">>] # "-"
    /\ snap[<<"foo", "latest">>] = snap[<<"foo", "v2">>]
    /\ blobs[snap[<<"foo", "v2">>]].kind = "file"
    /\ PathExists(snap, blobs, fblobs, <<"foo", "latest">>)
    /\ PathExists(snap, blobs, fblobs, <<"foo", "v2">>)

\* C16: the snapshot path pull, exists and path use for a reference is the
\* one model_path computes, with the namespace in it, and no other reference
\* has the same snapshot path.
C16_SnapshotPathHasNamespace ==
    (mode = "direct" /\ pc = "done" /\ cur.op \in {"pull", "exists", "path"}) =>
        /\ InModels(cur.model_path) = Ollama_model_path(cur.ref)
        /\ \A ref \in Refs \ {cur.ref} : Local(ref).model_path # cur.model_path

\* C17: a pull that goes to the registry and succeeds has sent exactly one
\* request for the manifest, in the direct path and in the model-store path.
C17_OneManifestRequest ==
    (pc = "done" /\ cur.op = "pull" /\ ~cur.short /\ result.kind = "ok") =>
        cur.reqM = 1

\* C18: a pull that the registry answered with "Not Found", for the manifest
\* or for a blob, ends with a KeyError that names the reference and the
\* Ollama registry; a pull that it answered with another HTTP error ends with
\* an error too; a pull that returned a path was answered with no error.
C18_NotFoundNamesReference ==
    /\ (cur.http = "HTTPError Not Found" =>
            /\ pc = "done"
            /\ result.kind = "KeyError"
            /\ result.what \in {"was not found in the Ollama registry",
                                "Manifest was not found in the Ollama registry"}
            /\ result.names.name = cur.ref.name
            /\ result.names.tag \in {cur.ref.tag, Local(cur.ref).model_tag}
            /\ (mode = "direct" => result.names = cur.ref))
    /\ (cur.http = "HTTPError" =>
            pc = "done" /\ result.kind = "KeyError" /\ result.path = NoPath)
    /\ (result.kind = "ok" => cur.http = "-")
C18_Witness ==
    /\ mode = "direct" /\ pc = "done" /\ cur.http = "HTTPError Not Found"
    /\ cur.dl = 2 /\ result.kind = "KeyError"

\* C21: in the model-store path the hash that keys the snapshot, which
\* get_model_hash read from the manifest fetch_manifest returned, is the hash
\* of the model descriptor in the file list handed to new_snapshot, whatever
\* the registry answers to each request.
C21_SnapshotHashIsModelDescriptorHash ==
    pc = "ms_new_snapshot" =>
        \A i \in DOMAIN cur.files :
            cur.files[i].name = cur.ref.name => cur.files[i].hash = cur.digest

\* C22: after a direct pull that succeeded on a manifest with a model layer,
\* the snapshot link names the blob of the layer get_model_hash selects, the
\* first layer of the model media type.
C22_DirectPullLinksFirstModelLayer ==
    (mode = "direct" /\ pc = "done" /\ cur.op = "pull" /\ ~cur.short
        /\ result.kind = "ok" /\ cur.model_hash \notin {"-", ""}) =>
        snap[result.path] = cur.model_hash

====
